---- MODULE Spec2Model ----
(***************************************************************************)
(* Tic-tac-toe with move history (kavia-common/tic-tac-toe-classic).       *)
(*                                                                         *)
(* The repository holds two versions of the App component:                 *)
(*   "part_000"  src/unnamed/part_000: history + step, the next player     *)
(*               derived from step parity, undo / redo / jumpTo / reset;   *)
(*   "App.js"    src/tic_tac_toe_frontend/src/App.js: history + step + a   *)
(*               stored xIsNext flag, undo (refused once there is a        *)
(*               winner) and reset, no redo and no jumpTo.                 *)
(* The variable app says which component is mounted; it never changes.     *)
(* Each handler is one atomic action (React batches the setState calls of  *)
(* one event handler into one render).                                     *)
(***************************************************************************)
EXTENDS Integers, Sequences, FiniteSets, TLC

VARIABLES
    app,        \* which App component is mounted: "part_000" or "App.js"
    history,    \* useState: sequence of board snapshots (JS index i is history[i+1])
    step,       \* useState: current step, a 0-based index into history
    xIsNext,    \* useState of App.js only: the stored "X moves next" flag
    lastOp,     \* the handler that ran last ("init" before any event)
    squares,    \* input of the stand-alone evaluation of a board
    evaluated   \* its output, <<>> before the evaluation and <<result>> after

vars == <<app, history, step, xIsNext, lastOp, squares, evaluated>>

(***************************************************************************)
(* Bounds of the model.                                                    *)
(***************************************************************************)
\* A click on an empty cell of a running game is drawn from the first
\* MaxChoice empty cells in ClickOrder; clicks that the handler refuses
\* (occupied cell, finished game) are drawn from all nine cells.
MaxChoice == 2
\* jumpTo is called with every integer in -1 .. MaxIndex.
MaxIndex == 10

ClickOrder == <<0, 4, 1, 3, 8, 2, 5, 6, 7>>

Cells == 0 .. 8
null == "null"
Marks == {"X", "O"}
Values == Marks \cup {null}
Boards == [Cells -> Values]

\* Array(9).fill(null)
EmptyBoard == [c \in Cells |-> null]

\* the table of calculateWinner, in its order
lines == << <<0, 1, 2>>, <<3, 4, 5>>, <<6, 7, 8>>,
            <<0, 3, 6>>, <<1, 4, 7>>, <<2, 5, 8>>,
            <<0, 4, 8>>, <<2, 4, 6>> >>

\* JS truthiness of a cell value
Truthy(v) == v # null

LineHit_NoTruthy(sq, l) == sq[l[1]] = sq[l[2]] /\ sq[l[1]] = sq[l[3]]

\* one iteration test of the loop of calculateWinner
LineHit(sq, l) ==
    /\ Truthy(sq[l[1]])
    /\ sq[l[1]] = sq[l[2]]
    /\ sq[l[1]] = sq[l[3]]

RECURSIVE ScanLines(_, _)
\* the for loop of calculateWinner from index i (1-based here) on
ScanLines(sq, i) ==
    IF i > Len(lines)
    THEN [winner |-> null, line |-> <<>>]
    ELSE IF LineHit(sq, lines[i])
         THEN [winner |-> sq[lines[i][1]], line |-> lines[i]]
         ELSE ScanLines(sq, i + 1)

calculateWinner(sq) == ScanLines(sq, 1)

\* currentSquares.filter(Boolean).length
MovesPlayedOf(sq) == Cardinality({c \in Cells : Truthy(sq[c])})
\* !winner && movesPlayed === 9
IsDrawOf(sq) == calculateWinner(sq).winner = null /\ MovesPlayedOf(sq) = 9
\* Boolean(winner) || isDraw
GameOverOf(sq) == calculateWinner(sq).winner # null \/ IsDrawOf(sq)

(***************************************************************************)
(* The React state of the mounted component, as one record, and the values *)
(* a render derives from it.  The ...Of operators take the state as an     *)
(* argument so that a handler can be applied to the result of another.     *)
(***************************************************************************)
St == [history |-> history, step |-> step, xIsNext |-> xIsNext]

currentSquaresOf(st) == st.history[st.step + 1]
winnerOf(st) == calculateWinner(currentSquaresOf(st)).winner
lineOf(st) == calculateWinner(currentSquaresOf(st)).line
isDrawOf(st) == IsDrawOf(currentSquaresOf(st))
gameOverOf(st) == GameOverOf(currentSquaresOf(st))

xIsNextMemo_Odd(st) == st.step % 2 = 1

\* part_000: useMemo(() => step % 2 === 0, [step])
xIsNextMemo(st) == st.step % 2 = 0

\* the xIsNext that component a reads
xIsNextOf(a, st) == IF a = "part_000" THEN xIsNextMemo(st) ELSE st.xIsNext

statusTextOf(a, st) ==
    IF winnerOf(st) # null THEN <<"Winner", winnerOf(st)>>
    ELSE IF isDrawOf(st) THEN <<"Draw!">>
    ELSE <<"Turn", IF xIsNextOf(a, st) THEN "X" ELSE "O">>

currentSquares == currentSquaresOf(St)
winner == winnerOf(St)
line == lineOf(St)
isDraw == isDrawOf(St)
gameOver == gameOverOf(St)
statusText == statusTextOf(app, St)

(***************************************************************************)
(* The clicks the model explores.                                          *)
(***************************************************************************)
RECURSIVE FirstEmpty(_, _, _)
\* the first n empty cells of sq in ClickOrder, from position k on
FirstEmpty(sq, k, n) ==
    IF n = 0 \/ k > Len(ClickOrder) THEN {}
    ELSE IF sq[ClickOrder[k]] = null
         THEN {ClickOrder[k]} \cup FirstEmpty(sq, k + 1, n - 1)
         ELSE FirstEmpty(sq, k + 1, n)

Clicks ==
    LET won == winner # null
        offered == FirstEmpty(currentSquares, 1, MaxChoice)
    IN  {i \in Cells : Truthy(currentSquares[i]) \/ won \/ i \in offered}

JumpArgs == (0 - 1) .. MaxIndex

(***************************************************************************)
(* Initial state: useState([Array(9).fill(null)]), useState(0),            *)
(* useState(true).                                                         *)
(***************************************************************************)
Init ==
    /\ app \in {"part_000", "App.js"}
    /\ history = <<EmptyBoard>>
    /\ step = 0
    /\ xIsNext = TRUE
    /\ lastOp = "init"
    /\ squares = EmptyBoard
    /\ evaluated = <<>>

\* a handler ran: its name is recorded and the state it set is installed
Ran(op, st) ==
    /\ lastOp' = op
    /\ history' = st.history
    /\ step' = st.step
    /\ xIsNext' = st.xIsNext
    /\ UNCHANGED <<app, squares, evaluated>>

(***************************************************************************)
(* Handlers of part_000, as functions from the state to the state they     *)
(* set, and the actions that run them.                                     *)
(***************************************************************************)
Truncated_Keep(st) == st.history

\* history.slice(0, step + 1)
Truncated(st) == SubSeq(st.history, 1, st.step + 1)

NextBoard_AlwaysX(st, i, mark) == [currentSquaresOf(st) EXCEPT ![i] = "X"]

NextBoard_FromHead(st, i, mark) ==
    [st.history[Len(st.history)] EXCEPT ![i] = mark]

\* next = currentSquares.slice(); next[i] = mark
NextBoard(st, i, mark) == [currentSquaresOf(st) EXCEPT ![i] = mark]

PlayRefused_Occupied(st, i) == Truthy(currentSquaresOf(st)[i])

PlayRefused_LastCell(st, i) ==
    \/ Truthy(currentSquaresOf(st)[i])
    \/ winnerOf(st) # null
    \/ MovesPlayedOf(currentSquaresOf(st)) >= 8

\* if (currentSquares[i] || winner) return;
PlayRefused(st, i) == Truthy(currentSquaresOf(st)[i]) \/ winnerOf(st) # null

handlePlayOn(st, i) ==
    IF PlayRefused(st, i) THEN st
    ELSE [st EXCEPT
            !.history = Append(Truncated(st),
                               NextBoard(st, i, IF xIsNextMemo(st) THEN "X" ELSE "O")),
            !.step = st.step + 1]

handleResetOn_KeepStep(st) == [st EXCEPT !.history = <<EmptyBoard>>]

handleResetOn(st) == [st EXCEPT !.history = <<EmptyBoard>>, !.step = 0]

UndoAllowed_NonNegative(st) == st.step >= 0

\* if (step > 0)
UndoAllowed(st) == st.step > 0

handleUndoOn_Pop(st) ==
    IF UndoAllowed(st)
    THEN [st EXCEPT !.step = st.step - 1,
                    !.history = SubSeq(st.history, 1, Len(st.history) - 1)]
    ELSE st

handleUndoOn(st) ==
    IF UndoAllowed(st) THEN [st EXCEPT !.step = st.step - 1] ELSE st

RedoAllowed_OffByOne(st) == st.step < Len(st.history) - 2

\* if (step < history.length - 1)
RedoAllowed(st) == st.step < Len(st.history) - 1

handleRedoOn(st) ==
    IF RedoAllowed(st) THEN [st EXCEPT !.step = st.step + 1] ELSE st

JumpAllowed_OffByOne(st, moveIndex) ==
    moveIndex >= 0 /\ moveIndex <= Len(st.history)

JumpAllowed_Positive(st, moveIndex) ==
    moveIndex > 0 /\ moveIndex < Len(st.history)

\* if (moveIndex >= 0 && moveIndex < history.length)
JumpAllowed(st, moveIndex) == moveIndex >= 0 /\ moveIndex < Len(st.history)

jumpToOn(st, moveIndex) ==
    IF JumpAllowed(st, moveIndex) THEN [st EXCEPT !.step = moveIndex] ELSE st

handlePlay(i) == app = "part_000" /\ Ran("play", handlePlayOn(St, i))
handleReset == app = "part_000" /\ Ran("reset", handleResetOn(St))
handleUndo == app = "part_000" /\ Ran("undo", handleUndoOn(St))
handleRedo == app = "part_000" /\ Ran("redo", handleRedoOn(St))
jumpTo(moveIndex) == app = "part_000" /\ Ran("jumpTo", jumpToOn(St, moveIndex))

(***************************************************************************)
(* Handlers of App.js.                                                     *)
(***************************************************************************)
handlePlayJsOn(st, i) ==
    IF PlayRefused(st, i) THEN st
    ELSE [st EXCEPT
            !.history = Append(Truncated(st),
                               NextBoard(st, i, IF st.xIsNext THEN "X" ELSE "O")),
            !.step = st.step + 1,
            !.xIsNext = ~st.xIsNext]

handleResetJsOn(st) ==
    [st EXCEPT !.history = <<EmptyBoard>>, !.step = 0, !.xIsNext = TRUE]

\* if (step > 0 && !winner)
UndoAllowedJs(st) == st.step > 0 /\ winnerOf(st) = null

handleUndoJsOn_NoToggle(st) ==
    IF UndoAllowedJs(st) THEN [st EXCEPT !.step = st.step - 1] ELSE st

handleUndoJsOn(st) ==
    IF UndoAllowedJs(st)
    THEN [st EXCEPT !.step = st.step - 1, !.xIsNext = ~st.xIsNext]
    ELSE st

handlePlayJs(i) == app = "App.js" /\ Ran("play", handlePlayJsOn(St, i))
handleResetJs == app = "App.js" /\ Ran("reset", handleResetJsOn(St))
handleUndoJs == app = "App.js" /\ Ran("undo", handleUndoJsOn(St))

Next ==
    \/ \E i \in Clicks : handlePlay(i)
    \/ handleReset
    \/ handleUndo
    \/ handleRedo
    \/ \E moveIndex \in JumpArgs : jumpTo(moveIndex)
    \/ \E i \in Clicks : handlePlayJs(i)
    \/ handleResetJs
    \/ handleUndoJs

Spec == Init /\ [][Next]_vars

(***************************************************************************)
(* Stand-alone evaluation of one board: what a render derives from         *)
(* currentSquares (winner, line, isDraw, gameOver), applied to any of the  *)
(* 3^9 boards.                                                             *)
(***************************************************************************)
EvaluateOf(sq) ==
    [winner |-> calculateWinner(sq).winner,
     line |-> calculateWinner(sq).line,
     isDraw |-> IsDrawOf(sq),
     gameOver |-> GameOverOf(sq)]

InitEval ==
    /\ app = "part_000"
    /\ history = <<EmptyBoard>>
    /\ step = 0
    /\ xIsNext = TRUE
    /\ lastOp = "init"
    /\ squares \in Boards
    /\ evaluated = <<>>

Evaluate ==
    /\ evaluated = <<>>
    /\ evaluated' = <<EvaluateOf(squares)>>
    /\ UNCHANGED <<app, history, step, xIsNext, lastOp, squares>>

NextEval == Evaluate

SpecEval == InitEval /\ [][NextEval]_vars

(***************************************************************************)
(* Vocabulary of the specification (spec.md sections 3 and 4), used to     *)
(* state the properties below.                                             *)
(***************************************************************************)
History(i) == history[i + 1]
Cursor == step
Length == Len(history)
DiffCells(b1, b2) == {c \in Cells : b1[c] # b2[c]}

\* play / undo of the mounted component applied to a state
PlayOn(st, i) == IF app = "part_000" THEN handlePlayOn(st, i) ELSE handlePlayJsOn(st, i)
UndoOn(st) == IF app = "part_000" THEN handleUndoOn(st) ELSE handleUndoJsOn(st)

\* C1: History[0] is the empty board, and every snapshot History[i+1]
\* differs from History[i] in exactly one cell, which is Empty in History[i]
\* and holds X in History[i+1] when i is even, O when i is odd.
C1_HistoryChain ==
    /\ History(0) = EmptyBoard
    /\ \A i \in 0 .. Length - 2 :
          /\ Cardinality(DiffCells(History(i), History(i + 1))) = 1
          /\ \A c \in DiffCells(History(i), History(i + 1)) :
                /\ History(i)[c] = null
                /\ History(i + 1)[c] = (IF i % 2 = 0 THEN "X" ELSE "O")

\* a full game has been played and the cursor moved back behind the head
C1_Witness == Length = 10 /\ Cursor < Length - 1

\* C2: the cursor always points into the history: 0 <= Cursor < Length.
C2_CursorInRange == Cursor >= 0 /\ Cursor < Length

\* jumpTo was the last handler, with snapshots on both sides of the cursor
C2_Witness == lastOp = "jumpTo" /\ Cursor > 0 /\ Cursor < Length - 1

(***************************************************************************)
(* Reference evaluation of a board, as spec.md section 4.1 words it.       *)
(***************************************************************************)
RefLines == << <<0, 1, 2>>, <<3, 4, 5>>, <<6, 7, 8>>,
               <<0, 3, 6>>, <<1, 4, 7>>, <<2, 5, 8>>,
               <<0, 4, 8>>, <<2, 4, 6>> >>
RefHits(b) ==
    {k \in DOMAIN RefLines :
        /\ b[RefLines[k][1]] \in Marks
        /\ b[RefLines[k][2]] = b[RefLines[k][1]]
        /\ b[RefLines[k][3]] = b[RefLines[k][1]]}
RefFirst(b) == CHOOSE k \in RefHits(b) : \A j \in RefHits(b) : k <= j
RefStatus(b) ==
    IF RefHits(b) # {}
    THEN <<"Won", b[RefLines[RefFirst(b)][1]], RefLines[RefFirst(b)]>>
    ELSE IF \A c \in Cells : b[c] # null THEN <<"Draw">>
         ELSE <<"InProgress">>
\* the status of b is Won or Draw
RefTerminal(b) == RefHits(b) # {} \/ \A c \in Cells : b[c] # null

\* the status a render shows, from the record of derived values
ShownStatus(e) ==
    IF e.winner # null THEN <<"Won", e.winner, e.line>>
    ELSE IF e.isDraw THEN <<"Draw">>
    ELSE <<"InProgress">>

\* C3: a successful play from Cursor = c yields History[0..c] followed by
\* the new board (length c+2) with the cursor on the last index, so redo is
\* rejected right after it; undo / redo / jumpTo never change History and
\* keep the cursor inside it, so no discarded snapshot can become current
\* again without being played again.
C3_BranchDiscard ==
    /\ \A i \in Cells :
          LET r == PlayOn(St, i) IN
          r # St =>
             /\ Len(r.history) = Cursor + 2
             /\ SubSeq(r.history, 1, Cursor + 1) = SubSeq(history, 1, Cursor + 1)
             /\ r.step = Cursor + 1
             /\ r.step = Len(r.history) - 1
             /\ (app = "part_000" => handleRedoOn(r) = r)
    /\ LET u == UndoOn(St) IN
          u.history = history /\ u.step \in 0 .. Length - 1
    /\ app = "part_000" =>
          /\ handleRedoOn(St).history = history
          /\ handleRedoOn(St).step \in 0 .. Length - 1
          /\ \A m \in JumpArgs :
                /\ jumpToOn(St, m).history = history
                /\ jumpToOn(St, m).step \in 0 .. Length - 1

\* the cursor was moved at least two snapshots behind the head and a play is
\* possible there: that play discards a branch
C3_Witness ==
    /\ app = "part_000"
    /\ lastOp \in {"undo", "jumpTo"}
    /\ Cursor < Length - 2
    /\ \E i \in Cells : handlePlayOn(St, i) # St

\* C4: play(i) leaves the state unchanged whenever cell i of the current
\* board is non-Empty or the current status is Won or Draw; in every other
\* case it succeeds: the cursor advances onto a new snapshot that has a mark
\* in cell i.
C4_PlayRejection ==
    LET terminal == RefTerminal(currentSquares) IN
    \A i \in Cells :
        LET r == PlayOn(St, i) IN
        IF currentSquares[i] # null \/ terminal
        THEN r = St
        ELSE /\ r.step = Cursor + 1
             /\ Len(r.history) = Cursor + 2
             /\ currentSquaresOf(r) = [currentSquares EXCEPT ![i] = currentSquaresOf(r)[i]]
             /\ currentSquaresOf(r)[i] \in Marks

\* a play was refused on a won board that still has empty cells
C4_Witness ==
    /\ lastOp = "play"
    /\ RefStatus(currentSquares)[1] = "Won"
    /\ \E i \in Cells : currentSquares[i] = null

\* C5: undo fails only when Cursor = 0: with Cursor > 0 it decrements the
\* cursor by exactly 1 and leaves History untouched, whatever the status.
C5_UndoFailsOnlyAtStart ==
    Cursor > 0 =>
        /\ UndoOn(St).step = Cursor - 1
        /\ UndoOn(St).history = history

\* C6: a successful play followed at once by undo restores the board and
\* the status (with the mark to move) that held before the play, also when
\* the play produced a Won or Draw board.
C6_PlayUndoRoundTrip ==
    \A i \in Cells :
        LET r == PlayOn(St, i) IN
        r # St =>
            /\ currentSquaresOf(UndoOn(r)) = currentSquares
            /\ statusTextOf(app, UndoOn(r)) = statusText

\* C7: after a successful undo, redo is available and restores exactly the
\* cursor, board and status that held before the undo; a successful redo
\* followed by undo restores the prior state too.
C7_UndoRedoRoundTrip ==
    app = "part_000" =>
        /\ LET u == handleUndoOn(St) IN
           u # St =>
              /\ u.step < Len(u.history) - 1
              /\ handleRedoOn(u).step = Cursor
              /\ currentSquaresOf(handleRedoOn(u)) = currentSquares
              /\ statusTextOf(app, handleRedoOn(u)) = statusText
              /\ handleRedoOn(u) = St
        /\ LET r == handleRedoOn(St) IN
           r # St =>
              /\ handleUndoOn(r).step = Cursor
              /\ currentSquaresOf(handleUndoOn(r)) = currentSquares
              /\ statusTextOf(app, handleUndoOn(r)) = statusText
              /\ handleUndoOn(r) = St

\* redo has brought the cursor back to the head after an undo
C7_Witness ==
    app = "part_000" /\ lastOp = "redo" /\ Cursor = Length - 1 /\ Cursor > 0

\* C8: jumpTo(0) succeeds from every reachable state: the current board
\* becomes the empty board with status InProgress(X) and History is unchanged.
C8_JumpToStart ==
    app = "part_000" =>
        LET r == jumpToOn(St, 0) IN
        /\ r.step = 0
        /\ currentSquaresOf(r) = EmptyBoard
        /\ statusTextOf(app, r) = <<"Turn", "X">>
        /\ r.history = history

\* jumpTo has moved the cursor to the start of a finished game
C8_Witness ==
    /\ app = "part_000"
    /\ lastOp = "jumpTo"
    /\ Cursor = 0
    /\ RefTerminal(History(Length - 1))

\* the cells of the scenario of spec.md section 8, in order
Scenario == <<0, 4, 1, 3, 8>>
\* the history records exactly the plays of Scenario, from the empty board
ScenarioPlayed ==
    /\ Length = Len(Scenario) + 1
    /\ Cursor = Len(Scenario)
    /\ History(0) = EmptyBoard
    /\ \A k \in 1 .. Len(Scenario) :
          DiffCells(History(k - 1), History(k)) = {Scenario[k]}

\* C9 as claimed: after play(0), play(4), play(1), play(3), play(8) from a
\* fresh store the marks placed are X, O, X, O, X, the status is
\* Won(X, [0,4,8]), and play on every cell 0..8 is rejected.
C9_ScenarioWon ==
    ScenarioPlayed =>
        /\ \A k \in 1 .. Len(Scenario) :
              History(k)[Scenario[k]] = (IF k % 2 = 1 THEN "X" ELSE "O")
        /\ winner = "X"
        /\ line = <<0, 4, 8>>
        /\ statusText = <<"Winner", "X">>
        /\ \A i \in Cells : PlayOn(St, i) = St

\* C9 as amended: after play(0), play(4), play(1), play(3), play(8) from a
\* fresh store the marks placed are X, O, X, O, X; no line is complete
\* (cell 4 holds O), so the status is InProgress with O to move, play is
\* rejected on the occupied cells 0, 1, 3, 4, 8 and succeeds on 2, 5, 6, 7.
C9_ScenarioInProgress ==
    ScenarioPlayed =>
        /\ \A k \in 1 .. Len(Scenario) :
              History(k)[Scenario[k]] = (IF k % 2 = 1 THEN "X" ELSE "O")
        /\ winner = null
        /\ line = <<>>
        /\ ~gameOver
        /\ RefStatus(currentSquares) = <<"InProgress">>
        /\ statusText = <<"Turn", "O">>
        /\ \A i \in {0, 1, 3, 4, 8} : PlayOn(St, i) = St
        /\ \A i \in {2, 5, 6, 7} :
              /\ PlayOn(St, i).step = Cursor + 1
              /\ currentSquaresOf(PlayOn(St, i)) = [currentSquares EXCEPT ![i] = "O"]

\* the scenario has been played and a further play was refused
C9_Witness == ScenarioPlayed /\ lastOp = "play"

\* the drawn board of spec.md section 8: X,O,X / X,O,O / O,X,X
DrawExample ==
    [c \in Cells |-> IF c \in {0, 2, 3, 7, 8} THEN "X" ELSE "O"]

\* C10: for every one of the 3^9 boards the evaluated status is Won(mark,
\* line) for the first complete line in the fixed order, Draw when there is
\* no complete line and no Empty cell, InProgress otherwise; a full board
\* with a complete line is Won, never Draw.
C10_EvaluateMatchesReference ==
    evaluated # <<>> =>
        /\ ShownStatus(evaluated[1]) = RefStatus(squares)
        /\ (RefHits(squares) # {} => ~evaluated[1].isDraw)
        /\ (evaluated[1].gameOver <=> RefTerminal(squares))
        /\ (squares = DrawExample => ShownStatus(evaluated[1]) = <<"Draw">>)

\* a full board with two complete lines has been evaluated
C10_Witness ==
    /\ evaluated # <<>>
    /\ Cardinality(RefHits(squares)) >= 2
    /\ \A c \in Cells : squares[c] # null

\* the mark spec.md derives from a board: X when the number of non-Empty
\* cells is even, O when it is odd
RefNextMark(b) ==
    IF Cardinality({c \in Cells : b[c] # null}) % 2 = 0 THEN "X" ELSE "O"

\* C11: in every reachable state the mark the mounted component would place
\* next (part_000: step parity, App.js: the stored xIsNext flag) is the mark
\* derived from the number of non-Empty cells of the current board.
C11_NextMarkMatchesBoard ==
    LET mark == RefNextMark(currentSquares) IN
    /\ (IF xIsNextOf(app, St) THEN "X" ELSE "O") = mark
    /\ \A i \in Cells :
          LET r == PlayOn(St, i) IN
          r # St => currentSquaresOf(r)[i] = mark

\* App.js: undo has moved the cursor back to a board on which O moves next
C11_Witness ==
    /\ app = "App.js"
    /\ lastOp = "undo"
    /\ Cursor < Length - 1
    /\ ~xIsNext

\* reset of the mounted component applied to a state
ResetOn(st) == IF app = "part_000" THEN handleResetOn(st) ELSE handleResetJsOn(st)

\* C12: undo at Cursor = 0, redo at Cursor = Length - 1 and jumpTo(index)
\* with index < 0 or index >= Length leave History and Cursor exactly as
\* they were (on a fresh store undo and redo keep Cursor = 0 and Length = 1);
\* jumpTo(index) with 0 <= index < Length sets Cursor = index.
C12_BoundaryRejections ==
    /\ Cursor = 0 => UndoOn(St) = St
    /\ app = "part_000" =>
          /\ Cursor = Length - 1 => handleRedoOn(St) = St
          /\ \A index \in JumpArgs :
                IF index < 0 \/ index >= Length
                THEN jumpToOn(St, index) = St
                ELSE /\ jumpToOn(St, index).step = index
                     /\ jumpToOn(St, index).history = history
          /\ (Length = 1 /\ Cursor = 0) =>
                /\ handleUndoOn(St).step = 0
                /\ handleRedoOn(St).step = 0
                /\ Len(handleUndoOn(St).history) = 1
                /\ Len(handleRedoOn(St).history) = 1

\* redo was refused on a fresh store
C12_Witness ==
    app = "part_000" /\ lastOp = "redo" /\ Length = 1 /\ Cursor = 0

\* the state after construction
InitialSt == [history |-> <<EmptyBoard>>, step |-> 0, xIsNext |-> TRUE]

\* C13: reset succeeds from every reachable state and produces exactly the
\* initial state: History = [empty board], Cursor = 0, status InProgress(X);
\* undo and redo are both rejected after it.
C13_ResetToInitial ==
    LET r == ResetOn(St) IN
    /\ r = InitialSt
    /\ r.history = <<EmptyBoard>>
    /\ r.step = 0
    /\ statusTextOf(app, r) = <<"Turn", "X">>
    /\ RefStatus(currentSquaresOf(r)) = <<"InProgress">>
    /\ UndoOn(r) = r
    /\ app = "part_000" => handleRedoOn(r) = r

\* reset has run and left the initial state
C13_Witness == lastOp = "reset" /\ St = InitialSt

\* C14: undo, redo and jumpTo never change History, whether they succeed or
\* are rejected; every step that changes History, and so every step that
\* removes a snapshot, is a play or a reset.
C14_PointerMovesKeepHistory ==
    [][/\ lastOp' \in {"undo", "redo", "jumpTo"} => history' = history
       /\ history' # history => lastOp' \in {"play", "reset"}
       /\ (\E k \in 1 .. Len(history) :
              k > Len(history') \/ history'[k] # history[k])
             => lastOp' \in {"play", "reset"}]_vars

\* undo has left snapshots behind the cursor in place
C14_Witness ==
    app = "part_000" /\ lastOp = "undo" /\ Cursor < Length - 2

\* the complete lines of a board that hold mark m
RefHitsOf(b, m) == {k \in RefHits(b) : b[RefLines[k][1]] = m}
\* the cell played to reach snapshot i (i >= 1)
PlayedCell(i) == CHOOSE c \in Cells : History(i - 1)[c] # History(i)[c]

\* C15 as claimed: no snapshot of a reachable History contains two complete
\* lines at once.
C15_NeverTwoLines ==
    \A i \in 0 .. Length - 1 : Cardinality(RefHits(History(i))) <= 1

\* C15 as amended: a snapshot holds at most two complete lines; two only on
\* a full board that is the last entry of History, both lines of X and both
\* through the cell played last, and calculateWinner then reports the first
\* of them in scan order; every snapshot with an Empty cell holds at most one.
C15_TwoLinesOnlyOnFullBoard ==
    \A i \in 0 .. Length - 1 :
        LET b == History(i)
            hits == RefHits(b)
        IN
        /\ Cardinality(hits) <= 2
        /\ Cardinality(hits) = 2 =>
              /\ i = Length - 1
              /\ i = 9
              /\ \A c \in Cells : b[c] # null
              /\ RefHitsOf(b, "X") = hits
              /\ \A k \in hits :
                    \E p \in 1 .. 3 : RefLines[k][p] = PlayedCell(i)
              /\ calculateWinner(b).line = RefLines[RefFirst(b)]
              /\ calculateWinner(b).winner = "X"

\* the ninth play has completed two lines at once
C15_Witness ==
    /\ lastOp = "play"
    /\ Cursor = 9
    /\ Cardinality(RefHits(currentSquares)) = 2

\* C16: no snapshot of a reachable History contains a complete line of X
\* and a complete line of O at the same time.
C16_NeverBothMarksWin ==
    \A i \in 0 .. Length - 1 :
        RefHitsOf(History(i), "X") = {} \/ RefHitsOf(History(i), "O") = {}

\* a play of O has completed a line, on the head of the history
C16_Witness ==
    /\ lastOp = "play"
    /\ Cursor = Length - 1
    /\ RefHitsOf(currentSquares, "O") # {}

\* C17 as claimed: with History = [B0, B1, B2] and Cursor = 1, every
\* successful play(k) appends a snapshot B3 different from the discarded B2.
C17_NewSnapshotDiffers ==
    (Length = 3 /\ Cursor = 1) =>
        \A k \in Cells :
            PlayOn(St, k) # St => currentSquaresOf(PlayOn(St, k)) # History(2)

\* C17 as amended: with History = [B0, B1, B2] and Cursor = 1, a successful
\* play(k) yields History = [B0, B1, B3] with Cursor = 2, where B3 is B1
\* with O in cell k; B3 differs from the discarded B2 exactly when k is not
\* the cell that was played to reach B2, and playing that same cell again
\* re-creates B3 = B2.
C17_NewSnapshotDiffersUnlessSameCell ==
    (Length = 3 /\ Cursor = 1) =>
        \A k \in Cells :
            LET r == PlayOn(St, k) IN
            r # St =>
                /\ Len(r.history) = 3
                /\ r.step = 2
                /\ r.history[1] = History(0)
                /\ r.history[2] = History(1)
                /\ r.history[3] = [History(1) EXCEPT ![k] = "O"]
                /\ (r.history[3] # History(2) <=> k # PlayedCell(2))
                /\ (k = PlayedCell(2) => r.history = history)

\* one undo from the head of a two-move history
C17_Witness ==
    Length = 3 /\ Cursor = 1 /\ lastOp = "undo" /\ app = "part_000"

(***************************************************************************)
(* Presentation: the disabled props and the move list a render computes.   *)
(***************************************************************************)
cellDisabled_OccupiedOnly(sq, over, i) == Truthy(sq[i])

\* Board.renderCell, on the props squares and gameOver that App passes to
\* Board: const disabled = !!squares[i] || gameOver
cellDisabled(sq, over, i) == Truthy(sq[i]) \/ over

\* part_000 Undo button: disabled={step === 0}
undoDisabled(st) == st.step = 0

\* App.js Undo button: disabled={step === 0 || winner}
undoDisabledJs(st) == st.step = 0 \/ winnerOf(st) # null

\* part_000 Redo button: disabled={step >= history.length - 1}
redoDisabled(st) == st.step >= Len(st.history) - 1

\* part_000 move list: history.map((s, move) => ... jumpTo(move))
moveList(st) == 0 .. Len(st.history) - 1

\* C18: in every reachable state a cell is disabled iff play on it would be
\* rejected, the Undo button is disabled iff the undo handler would be a
\* no-op, the Redo button is disabled iff the cursor is the last index, and
\* every jumpTo(move) of the move list is in range and succeeds.
C18_DisabledMatchesHandlers ==
    /\ LET terminal == RefTerminal(currentSquares)
           over == gameOver
       IN
       \A i \in Cells :
          LET disabled == cellDisabled(currentSquares, over, i) IN
          /\ disabled <=> (PlayOn(St, i) = St)
          /\ disabled <=> (currentSquares[i] # null \/ terminal)
    /\ (IF app = "part_000" THEN undoDisabled(St) ELSE undoDisabledJs(St))
          <=> (UndoOn(St) = St)
    /\ app = "part_000" =>
          /\ redoDisabled(St) <=> (Cursor = Length - 1)
          /\ redoDisabled(St) <=> (handleRedoOn(St) = St)
          /\ moveList(St) = 0 .. Length - 1
          /\ \A move \in moveList(St) :
                /\ move >= 0 /\ move < Length
                /\ jumpToOn(St, move).step = move
                /\ jumpToOn(St, move).history = history

\* a won board with empty cells is shown, behind it a history to undo
C18_Witness ==
    /\ winner # null
    /\ \E i \in Cells : currentSquares[i] = null
    /\ Cursor > 0
    /\ lastOp = "play"

\* C19: only the head of History can be terminal: every snapshot before the
\* last entry has no complete line and at least one Empty cell.
C19_OnlyHeadTerminal ==
    \A i \in 0 .. Length - 2 :
        /\ ~RefTerminal(History(i))
        /\ ~GameOverOf(History(i))

\* a finished game with the cursor moved back into its history
C19_Witness ==
    /\ RefTerminal(History(Length - 1))
    /\ Cursor > 0
    /\ Cursor < Length - 1

\* C20: length(History) never exceeds 10; whenever the status is InProgress
\* there is a cell on which play succeeds; every successful play moves the
\* cursor, which counts the marks of the current board, one step towards 9,
\* where the board is full and therefore Won or Draw: consecutive successful
\* plays from Cursor = c reach a terminal board after at most 9 - c plays.
C20_BoundedProgress ==
    /\ Length <= 10
    /\ Cursor <= 9
    /\ MovesPlayedOf(currentSquares) = Cursor
    /\ LET terminal == RefTerminal(currentSquares) IN
       /\ ~terminal => \E i \in Cells : PlayOn(St, i) # St
       /\ Cursor = 9 => terminal
       /\ gameOver <=> terminal
    /\ \A i \in Cells :
          LET r == PlayOn(St, i) IN
          r # St =>
             /\ r.step = Cursor + 1
             /\ Len(r.history) = Cursor + 2
             /\ MovesPlayedOf(currentSquaresOf(r)) = Cursor + 1

\* a drawn game: nine plays from Cursor = 0 with no line completed
C20_Witness ==
    /\ lastOp = "play"
    /\ Cursor = 9
    /\ RefStatus(currentSquares) = <<"Draw">>

\* The eventual form of C20, for behaviours in which the user keeps
\* clicking: a play that would place a mark is not postponed forever.
SuccessfulPlay ==
    \E i \in Clicks : (handlePlay(i) \/ handlePlayJs(i)) /\ step' = step + 1

SpecFair == Spec /\ WF_vars(SuccessfulPlay)

\* under SpecFair, a game in which from some point on only play is invoked
\* becomes terminal and stays so
EventuallyTerminal == (<>[](lastOp = "play")) => <>[]gameOver

====
